---- MODULE Spec2Model ----
(***************************************************************************)
(* A model of text_search_index.py: the TextSearchIndex class (add, find,  *)
(* entry) and the command line driver main().                              *)
(*                                                                         *)
(* A Python str is modelled as a sequence of one-character strings, a      *)
(* frozenset as a set, the defaultdict _index as a function whose DOMAIN   *)
(* is the set of keys present.                                             *)
(***************************************************************************)
EXTENDS Integers, Sequences, FiniteSets

VARIABLES
    _texts,                 \* self._texts: the list of the added texts
    _index,                 \* self._index: frozenset of words -> set of ids
    pc,                     \* position of the run: "ingest", "negate", "done", "exit", "error"
    ret,                    \* the last call on the TextSearchIndex and what it returned
    all_words,              \* main: set(sys.argv[1:])
    negative_words,         \* main: the negative words the loop of line 78 has still to visit
    indexes_with_chances,   \* main: the value of the set bound to indexes_with_chances
    aliased,                \* main: indexes_with_chances is the very set stored in _index
    printed                 \* main: the texts printed by the loop of line 81

vars == <<_texts, _index, pc, ret, all_words, negative_words,
          indexes_with_chances, aliased, printed>>

-----------------------------------------------------------------------------
(* Bounds and inputs *)

\* the number of lines read from standard input
MaxEntries == 2

\* the lines given to add
Lines ==
    { <<>>,
      <<"a">>,
      <<"b", "\n">>,
      <<"a", " ", "b">>,
      <<"a", " ", "a", " ", "b">>,
      <<"a", " ", " ", "b">>,
      <<"a", ",", " ", "b", ".", "\n">>,
      <<"a", ",", ".", " ", "b">>,
      <<"b", " ", "c", "\n">> }

\* the words find is asked for
QueryWords == { <<>>, <<"a">>, <<"b">>, <<"a", ",">> }

\* the command line arguments: any of these words, or an empty argument
Args == { <<"a">>, <<"b">>, <<"-", "a">>, <<"-", "c">> }
ArgSets == (SUBSET Args) \cup { {<<>>}, {<<>>, <<"a">>, <<"-", "a">>} }

\* the integers entry is asked for
EntryIds == (0 - MaxEntries - 1) .. (MaxEntries + 1)

-----------------------------------------------------------------------------
(* str.strip, str.split and the normalisation of line 39 *)

\* the characters of line 39, in the order reduce applies them
StripChars == <<" ", "\n", ",", ".", ":", ";">>

RECURSIVE LStrip(_, _)
LStrip(word, s) ==
    IF word # <<>> /\ Head(word) = s THEN LStrip(Tail(word), s) ELSE word

RECURSIVE RStrip(_, _)
RStrip(word, s) ==
    IF word # <<>> /\ word[Len(word)] = s
    THEN RStrip(SubSeq(word, 1, Len(word) - 1), s)
    ELSE word

\* word.strip(s) for a one-character s
Strip(word, s) == RStrip(LStrip(word, s), s)

\* reduce(lambda word, s: word.strip(s), [word] + [' ', '\n', ',', '.', ':', ';'])
\* from the i-th character of the list on
RECURSIVE StripFrom(_, _)
StripFrom(word, i) ==
    IF i > Len(StripChars) THEN word
    ELSE StripFrom(Strip(word, StripChars[i]), i + 1)

Normalize(word) == StripFrom(word, 1)

\* text.split(' '): the pieces between the single spaces, empty pieces kept
RECURSIVE SplitFrom(_, _, _)
SplitFrom(text, i, piece) ==
    IF i > Len(text) THEN <<piece>>
    ELSE IF text[i] = " " THEN <<piece>> \o SplitFrom(text, i + 1, <<>>)
    ELSE SplitFrom(text, i + 1, Append(piece, text[i]))

Split(text) == SplitFrom(text, 1, <<>>)

\* the list `words` of line 39
Words(text) == [i \in 1 .. Len(Split(text)) |-> Normalize(Split(text)[i])]

-----------------------------------------------------------------------------
(* itertools.combinations and frozenset *)

\* the elements of `words` at the positions `ps`, in the order of the list
RECURSIVE TupleAt(_, _, _)
TupleAt(words, ps, i) ==
    IF i > Len(words) THEN <<>>
    ELSE IF i \in ps THEN <<words[i]>> \o TupleAt(words, ps, i + 1)
    ELSE TupleAt(words, ps, i + 1)

\* combinations(words, k): one tuple per selection of k positions
CombinationsAdjacent(words, k) ==
    { SubSeq(words, i, i + k - 1) : i \in 1 .. (Len(words) - k + 1) }
Combinations(words, k) ==
    { TupleAt(words, ps, 1) : ps \in { qs \in SUBSET (1 .. Len(words)) : Cardinality(qs) = k } }

\* frozenset(words) of a list or tuple
FrozenSet(words) == { words[i] : i \in 1 .. Len(words) }

\* xrange(1, len(words) + 1)
SizesLow(words) == 0 .. Len(words)
SizesShort(words) == 1 .. (Len(words) - 1)
Sizes(words) == 1 .. Len(words)

\* the keys the loops of lines 40-42 visit
Keys(words) ==
    UNION { { FrozenSet(c) : c \in Combinations(words, k) } : k \in Sizes(words) }

-----------------------------------------------------------------------------
(* TextSearchIndex *)

\* len(self._texts) - 1, the id line 42 stores
NewIdNext(texts) == Len(texts)
NewId(texts) == Len(texts) - 1

\* self._index[key].add(id) for every key of `keys`, on a defaultdict(set)
InsertReplace(index, keys, id) ==
    [key \in DOMAIN index \cup keys |->
        IF key \in keys THEN {id} ELSE index[key]]
Insert(index, keys, id) ==
    [key \in DOMAIN index \cup keys |->
        (IF key \in DOMAIN index THEN index[key] ELSE {})
            \cup (IF key \in keys THEN {id} ELSE {})]

\* self._index.get(key, set()): the value find returns
Find(index, key) == IF key \in DOMAIN index THEN index[key] ELSE {}

\* the index after find: get() leaves the dictionary alone
AfterFindCreates(index, key) ==
    IF key \in DOMAIN index THEN index
    ELSE [k \in DOMAIN index \cup {key} |-> IF k = key THEN {} ELSE index[k]]
AfterFind(index, key) == index

\* find returns the stored set itself when the key is present, a new set otherwise
ReturnsStored(index, key) == key \in DOMAIN index

\* self._texts[index]: a Python list index, negative indexes count from the end
Entry(texts, i) ==
    IF 0 <= i /\ i < Len(texts) THEN [raised |-> FALSE, text |-> texts[i + 1]]
    ELSE IF 0 - Len(texts) <= i /\ i < 0
    THEN [raised |-> FALSE, text |-> texts[Len(texts) + i + 1]]
    ELSE [raised |-> TRUE, text |-> <<>>]

-----------------------------------------------------------------------------
(* main *)

\* word[0] == '-' raises IndexError on an empty argument
HasEmptyWord(words) == <<>> \in words

\* set(filter(lambda word: word[0] == '-', all_words))
NegativeOf(words) == { word \in words : word # <<>> /\ word[1] = "-" }

\* word[1:]
WholeWord(word) == word
DropFirst(word) == SubSeq(word, 2, Len(word))

\* indexes_with_chances -= other
Minus(chances, other) == chances \ other

\* all_words - negative_words
PositiveOf(words) == words \ NegativeOf(words)

-----------------------------------------------------------------------------
(* The state machine *)

NoCall == [op |-> "none", arg |-> <<>>, val |-> <<>>]

Init ==
    /\ _texts = <<>>
    /\ _index = <<>>
    /\ pc = "ingest"
    /\ ret = NoCall
    /\ all_words = {}
    /\ negative_words = {}
    /\ indexes_with_chances = {}
    /\ aliased = FALSE
    /\ printed = {}

\* t.add(line), lines 37-42
Add(text) ==
    /\ pc = "ingest"
    /\ Len(_texts) < MaxEntries
    /\ _texts' = Append(_texts, text)
    /\ _index' = Insert(_index, Keys(Words(text)), NewId(_texts'))
    /\ ret' = [op |-> "add", arg |-> text, val |-> <<>>]
    /\ UNCHANGED <<pc, all_words, negative_words, indexes_with_chances, aliased, printed>>

\* t.find(words), line 50
FindCall(words) ==
    /\ pc = "ingest"
    /\ ret' = [op |-> "find", arg |-> words, val |-> Find(_index, words)]
    /\ _index' = AfterFind(_index, words)
    /\ UNCHANGED <<_texts, pc, all_words, negative_words, indexes_with_chances,
                   aliased, printed>>

\* t.entry(index), line 57
EntryCall(i) ==
    /\ pc = "ingest"
    /\ ret' = [op |-> "entry", arg |-> i, val |-> Entry(_texts, i)]
    /\ UNCHANGED <<_texts, _index, pc, all_words, negative_words,
                   indexes_with_chances, aliased, printed>>

\* main, lines 64-77: the arguments are parsed and the positive words looked up
Query(words) ==
    /\ pc = "ingest"
    /\ all_words' = words
    /\ IF HasEmptyWord(words)
       THEN /\ pc' = "error"
            /\ UNCHANGED <<_index, ret, negative_words, indexes_with_chances, aliased>>
       ELSE IF PositiveOf(words) = {}
       THEN /\ pc' = "exit"
            /\ UNCHANGED <<_index, ret, negative_words, indexes_with_chances, aliased>>
       ELSE /\ pc' = "negate"
            /\ negative_words' = NegativeOf(words)
            /\ indexes_with_chances' = Find(_index, PositiveOf(words))
            /\ aliased' = ReturnsStored(_index, PositiveOf(words))
            /\ _index' = AfterFind(_index, PositiveOf(words))
            /\ ret' = [op |-> "find", arg |-> PositiveOf(words),
                       val |-> Find(_index, PositiveOf(words))]
    /\ UNCHANGED <<_texts, printed>>

\* the index after `indexes_with_chances -= ...`: the subtraction is in place, so
\* it changes the set stored under the positive words when that is the set at hand
Stored(index, key, chances) ==
    IF aliased THEN [index EXCEPT ![key] = chances] ELSE index

\* main, lines 78-79: one turn of the loop over the negative words
Subtract(word) ==
    /\ pc = "negate"
    /\ word \in negative_words
    /\ LET key == FrozenSet(<<DropFirst(word)>>)
           other == Find(_index, key)
           chances == Minus(indexes_with_chances, other)
       IN /\ indexes_with_chances' = chances
          /\ _index' = Stored(AfterFind(_index, key), PositiveOf(all_words), chances)
          /\ ret' = [op |-> "find", arg |-> key, val |-> other]
    /\ negative_words' = negative_words \ {word}
    /\ UNCHANGED <<_texts, pc, all_words, aliased, printed>>

\* main, lines 81-82: the entries found are printed
Output ==
    /\ pc = "negate"
    /\ negative_words = {}
    /\ printed' = { Entry(_texts, i).text : i \in indexes_with_chances }
    /\ pc' = IF \E i \in indexes_with_chances : Entry(_texts, i).raised
             THEN "error" ELSE "done"
    /\ UNCHANGED <<_texts, _index, ret, all_words, negative_words,
                   indexes_with_chances, aliased>>

Next ==
    \/ \E text \in Lines : Add(text)
    \/ \E words \in SUBSET QueryWords : FindCall(words)
    \/ \E i \in EntryIds : EntryCall(i)
    \/ \E words \in ArgSets : Query(words)
    \/ \E word \in negative_words : Subtract(word)
    \/ Output

Spec == Init /\ [][Next]_vars

-----------------------------------------------------------------------------
(* What the properties are stated with *)

\* the ids add has given out
Ids == 0 .. (Len(_texts) - 1)

\* the text of the entry `id`
TextOf(id) == _texts[id + 1]

\* the distinct tokens of a text, as add normalises them
Tokens(text) == FrozenSet(Words(text))

\* the entries whose distinct tokens contain every word of S
Matching(S) == { id \in Ids : S \subseteq Tokens(TextOf(id)) }

\* the character class the normaliser is meant to trim
StripClass == FrozenSet(StripChars)

\* a piece with the whole class trimmed from both ends
RECURSIVE TrimClass(_)
TrimClass(piece) ==
    IF piece = <<>> THEN piece
    ELSE IF Head(piece) \in StripClass THEN TrimClass(Tail(piece))
    ELSE IF piece[Len(piece)] \in StripClass
    THEN TrimClass(SubSeq(piece, 1, Len(piece) - 1))
    ELSE piece

\* the words the negative loop has visited, without their '-'
Negated == { Tail(word) : word \in NegativeOf(all_words) \ negative_words }

\* the step is a call of find, of entry or of add on the index being built
IsFindCall == pc = "ingest" /\ pc' = "ingest" /\ ret'.op = "find"
IsAdd == _texts' # _texts

-----------------------------------------------------------------------------
(* C1 *)

\* C1: subset closure. After any sequence of add calls, the id of every entry is
\* stored under every non-empty subset of the entry's distinct tokens.
SubsetClosure ==
    pc = "ingest" =>
        \A id \in Ids :
            \A S \in (SUBSET Tokens(TextOf(id))) \ {{}} :
                S \in DOMAIN _index /\ id \in _index[S]

\* two entries are indexed, one of them with a repeated token and two distinct ones
SubsetClosureWitness ==
    /\ pc = "ingest"
    /\ Len(_texts) = 2
    /\ \E id \in Ids :
        /\ Len(Words(TextOf(id))) > Cardinality(Tokens(TextOf(id)))
        /\ Cardinality(Tokens(TextOf(id))) = 2
        /\ \A S \in (SUBSET Tokens(TextOf(id))) \ {{}} : id \in Find(_index, S)

(* C2 *)

\* C2: lookup exactness. With only add calls behind it, find(S) of a non-empty
\* word set S is exactly the set of the entries whose tokens contain all of S.
LookupExact ==
    pc = "ingest" =>
        \A S \in (SUBSET QueryWords) \ {{}} :
            /\ Find(_index, S) = Matching(S)
            /\ (ret.op = "find" /\ ret.arg = S) => ret.val = Matching(S)

\* find was asked for two words and returned one of two entries
LookupExactWitness ==
    /\ pc = "ingest"
    /\ Len(_texts) = 2
    /\ ret.op = "find"
    /\ Cardinality(ret.arg) = 2
    /\ Cardinality(ret.val) = 1
    /\ \E id \in Ids \ ret.val : ret.arg \cap Tokens(TextOf(id)) # {}

(* C3 *)

\* C3: negation correctness. After the driver subtracted find({w}) for the negative
\* words w it visited, the result holds no entry that has such a w among its tokens
\* and holds every entry of find(positive words) that has none of them.
NegationCorrect ==
    pc \in {"negate", "done"} =>
        /\ \A id \in indexes_with_chances :
            id \in Matching(PositiveOf(all_words)) /\ Negated \cap Tokens(TextOf(id)) = {}
        /\ \A id \in Matching(PositiveOf(all_words)) :
            Negated \cap Tokens(TextOf(id)) = {} => id \in indexes_with_chances

\* a negative word removed one entry and left another
NegationCorrectWitness ==
    /\ pc = "done"
    /\ Negated # {}
    /\ indexes_with_chances # {}
    /\ Matching(PositiveOf(all_words)) \ indexes_with_chances # {}

(* C4 *)

\* C4: read-only after ingestion. Once the driver has looked the positive words up,
\* no step changes the entry list or the set stored under any key of the index.
ReadOnlyAfterIngestion ==
    [][pc # "ingest" => (_texts' = _texts /\ _index' = _index)]_vars

(* C5 *)

NormalizerTrims ==
    /\ \A i \in 1 .. Len(_texts) :
        Words(_texts[i]) =
            [j \in 1 .. Len(Split(_texts[i])) |-> TrimClass(Split(_texts[i])[j])]
    /\ \A key \in DOMAIN _index :
        \A token \in key :
            token # <<>> =>
                Head(token) \notin StripClass /\ token[Len(token)] \notin StripClass

(* C7 *)

\* C7: entry retrieval. entry(i) of an i below 0 or not below the number of entries
\* raises the out-of-range error; entry(i) of an id add produced returns its text.
EntryChecksRange ==
    ret.op = "entry" =>
        IF ret.arg < 0 \/ ret.arg >= Len(_texts)
        THEN ret.val.raised
        ELSE ~ret.val.raised /\ ret.val.text = TextOf(ret.arg)

(* C8 *)

\* C8: add is append-only. add gives the new entry the id equal to the number of
\* entries before it, leaves the earlier texts alone, and changes the index only by
\* inserting that id: under every key the earlier ids are the same as before.
AddAppendOnly ==
    [][IsAdd =>
        /\ Len(_texts') = Len(_texts) + 1
        /\ SubSeq(_texts', 1, Len(_texts)) = _texts
        /\ _texts'[Len(_texts) + 1] = ret'.arg
        /\ DOMAIN _index \subseteq DOMAIN _index'
        /\ \E key \in DOMAIN _index' : Len(_texts) \in _index'[key]
        /\ \A key \in DOMAIN _index' :
            /\ _index'[key] \ {Len(_texts)} = Find(_index, key)
            /\ (\A S \in SUBSET QueryWords : Find(_index', S) \cap Ids = Find(_index, S))]_vars

\* an empty line was added after an entry with real words, and its id joined the
\* first one's under a key
AddAppendOnlyWitness ==
    /\ pc = "ingest"
    /\ ret.op = "add"
    /\ Len(_texts) = 2
    /\ _texts[2] = <<>>
    /\ Tokens(_texts[1]) \ {<<>>} # {}
    /\ \E key \in DOMAIN _index : _index[key] = {0, 1}

(* C9 *)

IdsValid ==
    /\ \A key \in DOMAIN _index : _index[key] \subseteq Ids
    /\ ret.op = "find" => ret.val \subseteq Ids
    /\ indexes_with_chances \subseteq Ids
    /\ \A id \in indexes_with_chances : ~Entry(_texts, id).raised
    /\ pc = "error" => HasEmptyWord(all_words)
    /\ pc = "done" => printed = { TextOf(id) : id \in indexes_with_chances }

\* the driver subtracted a negative word and printed an entry
IdsValidWitness ==
    /\ pc = "done"
    /\ Negated # {}
    /\ printed # {}
    /\ Len(_texts) = MaxEntries

====
